---- MODULE Spec2Model ----
(***************************************************************************)
(* Model of the NeonBlue experiment dashboard: the session state and the   *)
(* request pipeline of src/lib/api.ts and the load controller of           *)
(* src/components/ExperimentsDashboard.tsx (login, experiment selection,   *)
(* results loading, health probe).                                          *)
(*                                                                         *)
(* JavaScript strings the code inspects character by character (the token, *)
(* trimmed by handleLogin) are sequences of one-character strings.  The    *)
(* JavaScript null is NullToken / NullStr / NullRec according to the type  *)
(* of the value it stands in for.                                           *)
(***************************************************************************)
EXTENDS Integers, Sequences, FiniteSets, TLC

\* ---------------------------------------------------------------- bounds
MaxTokenLen == 1
NumExperiments == 2
MaxRequests == 3
MaxLimit == 1
MaxCount == 1
MaxMetrics == 2

\* ---------------------------------------------------------------- values
NullToken == <<"null">>
NullStr == "null"
NullRec == [null |-> TRUE]

Chars == {" ", "a"}
Whitespace == {" "}

RECURSIVE SeqsUpTo(_, _)
SeqsUpTo(S, n) ==
    IF n = 0 THEN {<<>>}
    ELSE LET shorter == SeqsUpTo(S, n - 1)
         IN shorter \cup {Append(s, c) : s \in shorter, c \in S}

Tokens == SeqsUpTo(Chars, MaxTokenLen)

\* String.prototype.trim as handleLogin uses it.
RECURSIVE TrimStart(_)
TrimStart(s) ==
    IF s # <<>> /\ Head(s) \in Whitespace THEN TrimStart(Tail(s)) ELSE s

RECURSIVE TrimEnd(_)
TrimEnd(s) ==
    IF s # <<>> /\ s[Len(s)] \in Whitespace
    THEN TrimEnd(SubSeq(s, 1, Len(s) - 1)) ELSE s

Trim(s) == TrimEnd(TrimStart(s))

\* ------------------------------------------------------- domain model
ExpIds == 1..NumExperiments

VariantNames == <<"control", "treatment">>

Variant(e, i) ==
    [id |-> 10 * e + i, experiment_id |-> e, name |-> VariantNames[i],
     traffic_allocation |-> 20 * i + e]

Experiment(e) ==
    [id |-> e, name |-> "exp" \o ToString(e),
     variants |-> [i \in 1..(e % 3) |-> Variant(e, i)]]

AllExperiments == [e \in ExpIds |-> Experiment(e)]

ExperimentResults(e, g) ==
    [experiment_id |-> e, experiment_name |-> "exp" \o ToString(e),
     generated_at |-> g]

\* ---------------------------------------------------- server responses
NetworkFailure == [type |-> "network"]
Unparsable == [unparsable |-> TRUE]

HttpResponse(s, b) == [type |-> "http", status |-> s, body |-> b]

ErrorResponses ==
    { NetworkFailure,
      HttpResponse(401, [detail |-> "Invalid token", status_code |-> 401]),
      HttpResponse(500, Unparsable),
      HttpResponse(500, [status_code |-> 500]),
      HttpResponse(200, Unparsable) }

ListBodies ==
    { [total |-> 0],
      [experiments |-> <<>>, total |-> 0],
      [experiments |-> AllExperiments, total |-> NumExperiments] }

ListResponses == ErrorResponses \cup {HttpResponse(200, b) : b \in ListBodies}

\* The payload is stamped with the serial of the request it answers, so
\* that no two responses carry the same snapshot.
ResultsResponses(r) ==
    ErrorResponses \cup {HttpResponse(200, ExperimentResults(r.exp, r.id))}

HealthResponses ==
    { NetworkFailure,
      HttpResponse(200, [status |-> "ok", version |-> "1"]),
      HttpResponse(200, Unparsable),
      HttpResponse(500, [detail |-> "down"]),
      HttpResponse(500, Unparsable) }

\* ------------------------------------------------------------ api.ts
ResponseOk(resp) == resp.status >= 200 /\ resp.status <= 299

Resolved(v) == [ok |-> TRUE, value |-> v]
Rejected(m) == [ok |-> FALSE, message |-> m]

HasDetail(body) == "detail" \in DOMAIN body /\ body.detail # ""

AuthHeadersAlways(tok) == [authorization |-> <<"Bearer", tok>>]

\* Headers fetchWithAuth builds from the module-level authToken.
AuthHeaders(tok) ==
    IF tok # NullToken /\ tok # <<>>
    THEN [authorization |-> <<"Bearer", tok>>]
    ELSE [authorization |-> <<>>]

\* Outcome of fetchWithAuth for a server response.
FetchWithAuth(resp) ==
    IF resp.type = "network" THEN Rejected("Failed to fetch")
    ELSE IF ~ResponseOk(resp)
    THEN IF resp.body = Unparsable THEN Rejected("Unknown error")
         ELSE IF HasDetail(resp.body) THEN Rejected(resp.body.detail)
         ELSE Rejected("HTTP " \o ToString(resp.status))
    ELSE IF resp.body = Unparsable THEN Rejected("Unexpected end of JSON input")
    ELSE Resolved(resp.body)

\* Outcome of checkHealth: fetch, then response.json(), no status test.
CheckHealth(resp) ==
    IF resp.type = "network" THEN Rejected("Failed to fetch")
    ELSE IF resp.body = Unparsable THEN Rejected("Unexpected end of JSON input")
    ELSE Resolved(resp.body)

\* An optional parameter: absent (undefined) or supplied with a value.
Absent == [present |-> FALSE]
Some(v) == [present |-> TRUE, value |-> v]

\* JavaScript truthiness of an optional string, number and boolean.
TruthyStr(o) == o.present /\ o.value # ""
TruthyNum(o) == o.present /\ o.value # 0
TruthyBool(o) == o.present /\ o.value

\* params?.key when params itself may be undefined.
Param(params, key) == IF params = NullRec THEN Absent ELSE params[key]

\* searchParams.set(key, value) on keys that are set at most once.
SetParam(q, key, value) == Append(q, [key |-> key, value |-> value])

\* getExperiments: the endpoint handed to fetchWithAuth; a non-empty
\* searchParams is the part after "?".
GetExperimentsEndpoint(params) ==
    LET status == Param(params, "status")
        limit == Param(params, "limit")
        offset == Param(params, "offset")
        q1 == IF TruthyStr(status) THEN SetParam(<<>>, "status", status.value) ELSE <<>>
        q2 == IF TruthyNum(limit) THEN SetParam(q1, "limit", ToString(limit.value)) ELSE q1
        q3 == IF TruthyNum(offset) THEN SetParam(q2, "offset", ToString(offset.value)) ELSE q2
    IN [path |-> "/experiments", searchParams |-> q3]

\* getExperimentResults: the endpoint handed to fetchWithAuth.
GetExperimentResultsEndpoint(id, params) ==
    LET start_date == Param(params, "start_date")
        end_date == Param(params, "end_date")
        event_types == Param(params, "event_types")
        format == Param(params, "format")
        include_time_series == Param(params, "include_time_series")
        granularity == Param(params, "time_series_granularity")
        q1 == IF TruthyStr(start_date)
              THEN SetParam(<<>>, "start_date", start_date.value) ELSE <<>>
        q2 == IF TruthyStr(end_date)
              THEN SetParam(q1, "end_date", end_date.value) ELSE q1
        q3 == IF TruthyStr(event_types)
              THEN SetParam(q2, "event_types", event_types.value) ELSE q2
        q4 == IF TruthyStr(format) THEN SetParam(q3, "format", format.value) ELSE q3
        q5 == IF TruthyBool(include_time_series)
              THEN SetParam(q4, "include_time_series", "true") ELSE q4
        q6 == IF TruthyStr(granularity)
              THEN SetParam(q5, "time_series_granularity", granularity.value) ELSE q5
    IN [path |-> "/experiments/" \o ToString(id) \o "/results", searchParams |-> q6]

\* ------------------------------------------------------------- state
VARIABLES
    token,              \* useState('')      text of the token box
    authToken,          \* api.ts module variable
    isAuthenticated,
    apiStatus,
    experiments,
    selectedExperiment,
    results,
    loading,
    error,
    inflight,           \* fetchWithAuth requests awaiting their response
    healthInflight,     \* the checkHealth probe issued on mount
    reqCount,           \* number of fetchWithAuth requests issued
    returned,           \* payloads getExperimentResults calls have returned
    call,               \* an api.ts call whose endpoint is being built
    endpoint,           \* the endpoint that call hands to fetchWithAuth
    viewModels          \* the view models of the last dashboard render

vars == <<token, authToken, isAuthenticated, apiStatus, experiments,
          selectedExperiment, results, loading, error, inflight,
          healthInflight, reqCount, returned, call, endpoint,
          viewModels>>

pureVars == <<call, endpoint, viewModels>>

ValidationMessage == "Please enter an API token"

CtlInit ==
    /\ token = <<>>
    /\ authToken = NullToken
    /\ isAuthenticated = FALSE
    /\ apiStatus = "checking"
    /\ experiments = <<>>
    /\ selectedExperiment = NullRec
    /\ results = NullRec
    /\ loading = FALSE
    /\ error = NullStr
    /\ inflight = {}
    /\ healthInflight = TRUE
    /\ reqCount = 0
    /\ returned = {}

Init ==
    /\ CtlInit
    /\ call = NullRec
    /\ endpoint = NullRec
    /\ viewModels = NullRec

\* A request as fetchWithAuth sends it.
Request(n, op, e, tok) ==
    [id |-> n, op |-> op, exp |-> e, headers |-> AuthHeaders(tok)]

CanLoginOnlineOnly == ~isAuthenticated /\ ~loading /\ apiStatus = "online"

CanLoginWhileLoading == ~isAuthenticated /\ apiStatus # "offline"

\* The login screen is rendered and its Connect button is not disabled.
CanLogin == ~isAuthenticated /\ ~(loading \/ apiStatus = "offline")

\* The dashboard with its experiment grid is rendered.
CanSelect == isAuthenticated

\* TextBox.onValueChanged on the login screen.
SetToken(v) ==
    /\ ~isAuthenticated
    /\ token' = v
    /\ UNCHANGED <<authToken, isAuthenticated, apiStatus, experiments,
                   selectedExperiment, results, loading, error, inflight,
                   healthInflight, reqCount, returned>>
    /\ UNCHANGED pureVars

IsBlankNoTrim(tok) == tok = <<>>

\* !token.trim()
IsBlank(tok) == Trim(tok) = <<>>

\* handleLogin with an empty or blank token: the early return.
HandleLoginInvalid ==
    /\ CanLogin
    /\ IsBlank(token)
    /\ error' = ValidationMessage
    /\ UNCHANGED <<token, authToken, isAuthenticated, apiStatus, experiments,
                   selectedExperiment, results, loading, inflight,
                   healthInflight, reqCount, returned>>
    /\ UNCHANGED pureVars

\* handleLogin up to the await of getExperiments().
HandleLoginSubmit ==
    /\ CanLogin
    /\ ~IsBlank(token)
    /\ reqCount < MaxRequests
    /\ authToken' = token
    /\ loading' = TRUE
    /\ error' = NullStr
    /\ reqCount' = reqCount + 1
    /\ inflight' = inflight \cup {Request(reqCount + 1, "getExperiments", 0, authToken')}
    /\ UNCHANGED <<token, isAuthenticated, apiStatus, experiments,
                   selectedExperiment, results, healthInflight, returned>>
    /\ UNCHANGED pureVars

HandleLogin == HandleLoginInvalid \/ HandleLoginSubmit

ExperimentsOfDropped(body) == <<>>

\* response.experiments || []
ExperimentsOf(body) ==
    IF "experiments" \in DOMAIN body THEN body.experiments ELSE <<>>

LoadingAfterSettleTryOnly(ok, prev) == IF ok THEN FALSE ELSE prev

\* finally { setLoading(false) } of handleLogin and loadExperimentResults.
LoadingAfterSettle(ok, prev) == FALSE

\* handleLogin after the await: try / catch / finally.
LoginResolve(r, resp) ==
    /\ r \in inflight
    /\ r.op = "getExperiments"
    /\ resp \in ListResponses
    /\ inflight' = inflight \ {r}
    /\ LET out == FetchWithAuth(resp) IN
         IF out.ok
         THEN /\ experiments' = ExperimentsOf(out.value)
              /\ isAuthenticated' = TRUE
              /\ error' = error
         ELSE /\ error' = out.message
              /\ isAuthenticated' = FALSE
              /\ experiments' = experiments
    /\ loading' = LoadingAfterSettle(FetchWithAuth(resp).ok, loading)
    /\ UNCHANGED <<token, authToken, apiStatus, selectedExperiment, results,
                   healthInflight, reqCount, returned>>
    /\ UNCHANGED pureVars

\* handleExperimentSelect + loadExperimentResults up to the await.
LoadExperimentResults(experiment) ==
    /\ CanSelect
    /\ \E i \in DOMAIN experiments : experiments[i] = experiment
    /\ reqCount < MaxRequests
    /\ selectedExperiment' = experiment
    /\ loading' = TRUE
    /\ error' = NullStr
    /\ reqCount' = reqCount + 1
    /\ inflight' = inflight \cup
           {Request(reqCount + 1, "getExperimentResults", experiment.id, authToken)}
    /\ UNCHANGED <<token, authToken, isAuthenticated, apiStatus, experiments,
                   results, healthInflight, returned>>
    /\ UNCHANGED pureVars

SetResultsIfSelected(prev, data, selected) ==
    IF selected # NullRec /\ data.experiment_id = selected.id THEN data ELSE prev

SetResultsPatched(prev, data, selected) ==
    IF prev = NullRec THEN data
    ELSE [prev EXCEPT !.generated_at = data.generated_at]

\* setResults(data) in the try block.
SetResultsOnSuccess(prev, data, selected) == data

ResultsOnFailureKept(prev) == prev

\* setResults(null) in the catch block.
ResultsOnFailure(prev) == NullRec

\* loadExperimentResults after the await: try / catch / finally.
ResultsResolve(r, resp) ==
    /\ r \in inflight
    /\ r.op = "getExperimentResults"
    /\ resp \in ResultsResponses(r)
    /\ inflight' = inflight \ {r}
    /\ LET out == FetchWithAuth(resp) IN
         IF out.ok
         THEN /\ results' = SetResultsOnSuccess(results, out.value, selectedExperiment)
              /\ returned' = returned \cup {out.value}
              /\ error' = error
         ELSE /\ error' = out.message
              /\ results' = ResultsOnFailure(results)
              /\ returned' = returned
    /\ loading' = LoadingAfterSettle(FetchWithAuth(resp).ok, loading)
    /\ UNCHANGED <<token, authToken, isAuthenticated, apiStatus, experiments,
                   selectedExperiment, healthInflight, reqCount>>
    /\ UNCHANGED pureVars

\* The mount effect's then / catch on checkHealth().
HealthResolve(resp) ==
    /\ healthInflight
    /\ resp \in HealthResponses
    /\ healthInflight' = FALSE
    /\ apiStatus' = IF CheckHealth(resp).ok THEN "online" ELSE "offline"
    /\ UNCHANGED <<token, authToken, isAuthenticated, experiments,
                   selectedExperiment, results, loading, error, inflight,
                   reqCount, returned>>
    /\ UNCHANGED pureVars

VariantAllocationDataById(selected) ==
    IF selected = NullRec THEN <<>>
    ELSE [i \in DOMAIN selected.variants |->
            [variant |-> selected.variants[i].name,
             allocation |-> selected.variants[i].id]]

\* selectedExperiment?.variants.map(v => ({variant, allocation})) || []
VariantAllocationData(selected) ==
    IF selected = NullRec THEN <<>>
    ELSE [i \in DOMAIN selected.variants |->
            [variant |-> selected.variants[i].name,
             allocation |-> selected.variants[i].traffic_allocation]]

Next ==
    \/ \E v \in Tokens : SetToken(v)
    \/ HandleLogin
    \/ \E r \in inflight, resp \in ListResponses : LoginResolve(r, resp)
    \/ \E e \in ExpIds : LoadExperimentResults(Experiment(e))
    \/ \E r \in inflight : \E resp \in ResultsResponses(r) : ResultsResolve(r, resp)
    \/ \E resp \in HealthResponses : HealthResolve(resp)

Spec == Init /\ [][Next]_vars

\* getExperiment(id): exported by api.ts, not called by the dashboard.
GetExperiment(id) ==
    /\ reqCount < MaxRequests
    /\ reqCount' = reqCount + 1
    /\ inflight' = inflight \cup {Request(reqCount + 1, "getExperiment", id, authToken)}
    /\ UNCHANGED <<token, authToken, isAuthenticated, apiStatus, experiments,
                   selectedExperiment, results, loading, error,
                   healthInflight, returned>>
    /\ UNCHANGED pureVars

\* getEventTypes(): exported by api.ts, not called by the dashboard.
GetEventTypes ==
    /\ reqCount < MaxRequests
    /\ reqCount' = reqCount + 1
    /\ inflight' = inflight \cup {Request(reqCount + 1, "getEventTypes", 0, authToken)}
    /\ UNCHANGED <<token, authToken, isAuthenticated, apiStatus, experiments,
                   selectedExperiment, results, loading, error,
                   healthInflight, returned>>
    /\ UNCHANGED pureVars

\* The promise of such a call settles; no dashboard state depends on it.
ApiSettle(r) ==
    /\ r \in inflight
    /\ r.op \in {"getExperiment", "getEventTypes"}
    /\ inflight' = inflight \ {r}
    /\ UNCHANGED <<token, authToken, isAuthenticated, apiStatus, experiments,
                   selectedExperiment, results, loading, error,
                   healthInflight, reqCount, returned>>
    /\ UNCHANGED pureVars

ClientNext ==
    \/ Next
    \/ \E e \in ExpIds : GetExperiment(e)
    \/ GetEventTypes
    \/ \E r \in inflight : ApiSettle(r)

\* The dashboard together with any other caller of the API client.
ClientSpec == Init /\ [][ClientNext]_vars

\* ------------------------------------------------ view-model derivations
\* String.prototype.toUpperCase on one character.
Upper(c) == CASE c = "c" -> "C" [] c = "v" -> "V" [] OTHER -> c

\* type.charAt(0).toUpperCase() + type.slice(1)
Capitalize(str) == IF str = <<>> THEN <<>> ELSE <<Upper(Head(str))>> \o Tail(str)

\* A row cell is a string (the row label) or a number (a count).
Label(str) == [label |-> str]
Count(n) == [count |-> n]

Has(obj, field) == obj # NullRec /\ field \in DOMAIN obj

\* selectedExperiment.variants is undefined: .map throws a TypeError.
VariantAllocationThrows(selected) ==
    selected # NullRec /\ "variants" \notin DOMAIN selected

\* results?.variant_metrics?.map(...) || []
ConversionData(res) ==
    IF ~Has(res, "variant_metrics") THEN <<>>
    ELSE [i \in DOMAIN res.variant_metrics |->
            [variant |-> res.variant_metrics[i].variant_name,
             rate |-> res.variant_metrics[i].conversion_rate,
             assignments |-> res.variant_metrics[i].total_assignments,
             events |-> res.variant_metrics[i].total_events]]

\* results?.events_by_type ? Object.entries(...).map(...) : []
EventsByTypeData(res) ==
    IF ~Has(res, "events_by_type") THEN <<>>
    ELSE [i \in DOMAIN res.events_by_type |->
            [type |-> Capitalize(res.events_by_type[i].type),
             count |-> res.events_by_type[i].count]]

\* Object.keys(vm.events_by_type) of an entry without events_by_type throws.
VariantEventsThrows(res) ==
    /\ Has(res, "variant_metrics")
    /\ \E i \in DOMAIN res.variant_metrics :
          "events_by_type" \notin DOMAIN res.variant_metrics[i]

\* eventTypes.add(type) on the insertion-ordered Set.
SetAdd(seq, x) == IF \E i \in DOMAIN seq : seq[i] = x THEN seq ELSE Append(seq, x)

RECURSIVE AddKeys(_, _)
AddKeys(seq, entries) ==
    IF entries = <<>> THEN seq
    ELSE AddKeys(SetAdd(seq, Head(entries).type), Tail(entries))

\* The first forEach: the union of the variants' event types, first seen first.
RECURSIVE CollectEventTypes(_, _)
CollectEventTypes(seq, metrics) ==
    IF metrics = <<>> THEN seq
    ELSE CollectEventTypes(AddKeys(seq, Head(metrics).events_by_type), Tail(metrics))

\* vm.events_by_type[eventType] || 0
CountOf(vm, eventType) ==
    LET hits == {i \in DOMAIN vm.events_by_type : vm.events_by_type[i].type = eventType}
    IN IF hits = {} THEN 0 ELSE vm.events_by_type[CHOOSE i \in hits : TRUE].count

\* row[key] = value on the row object.
SetCell(row, key, value) ==
    [k \in DOMAIN row \cup {key} |-> IF k = key THEN value ELSE row[k]]

\* The second forEach: one assignment per variant_metrics entry.
RECURSIVE FillRow(_, _, _)
FillRow(row, metrics, eventType) ==
    IF metrics = <<>> THEN row
    ELSE FillRow(SetCell(row, Head(metrics).variant_name,
                         Count(CountOf(Head(metrics), eventType))),
                 Tail(metrics), eventType)

\* variantEventsData
VariantEventsData(res) ==
    IF ~Has(res, "variant_metrics") THEN <<>>
    ELSE LET eventTypes == CollectEventTypes(<<>>, res.variant_metrics)
         IN [i \in DOMAIN eventTypes |->
               FillRow([k \in {"eventType"} |-> Label(Capitalize(eventTypes[i]))],
                       res.variant_metrics, eventTypes[i])]

\* new Date(ts.timestamp).toLocaleDateString(): the date without the time.
LocaleDateString(timestamp) == timestamp.date

\* results?.time_series?.map(...) || []
TimeSeriesData(res) ==
    IF ~Has(res, "time_series") THEN <<>>
    ELSE [i \in DOMAIN res.time_series |->
            [date |-> LocaleDateString(res.time_series[i].timestamp),
             variant |-> res.time_series[i].variant_name,
             conversions |-> res.time_series[i].events,
             rate |-> res.time_series[i].conversion_rate]]

TypeErrorThrown == [threw |-> "TypeError"]

\* The derivations of one render of the dashboard, in source order; a throw
\* in one of them aborts the render.
Derive(selected, res) ==
    IF VariantAllocationThrows(selected) \/ VariantEventsThrows(res)
    THEN TypeErrorThrown
    ELSE [variantAllocationData |-> VariantAllocationData(selected),
          conversionData |-> ConversionData(res),
          eventsByTypeData |-> EventsByTypeData(res),
          variantEventsData |-> VariantEventsData(res),
          timeSeriesData |-> TimeSeriesData(res)]

\* ----- payloads and experiments a render may meet
EventTypeNames == {<<"c">>, <<"v">>}

EventEntries == [type : EventTypeNames, count : 0..MaxCount]

\* An events_by_type object: entries in insertion order, keys distinct.
EventMaps ==
    {<<>>} \cup {<<a>> : a \in EventEntries}
           \cup {p \in EventEntries \X EventEntries : p[1].type # p[2].type}

MetricNames == {"A", "eventType"}

MetricBase(name) ==
    [variant_id |-> 1, variant_name |-> name, total_assignments |-> 100,
     total_events |-> 20, conversion_rate |-> 12]

MetricsEntries ==
    {MetricBase(n) : n \in MetricNames}
      \cup {("events_by_type" :> m) @@ MetricBase(n) : n \in MetricNames, m \in EventMaps}

MetricsLists == UNION {[1..n -> MetricsEntries] : n \in 0..MaxMetrics}

TimeSeriesPoint ==
    [timestamp |-> [date |-> <<2024, 1, 2>>, time |-> 13], variant_id |-> 1,
     variant_name |-> "A", assignments |-> 10, events |-> 3, conversion_rate |-> 30]

ResultsBase == ExperimentResults(1, 1)

\* Results payloads: every variant_metrics list with the other collections
\* present, and every presence of the other collections.
ViewResults ==
    {NullRec, ResultsBase}
      \cup {("variant_metrics" :> l) @@ ("events_by_type" :> <<>>)
               @@ ("time_series" :> <<>>) @@ ResultsBase : l \in MetricsLists}
      \cup {("events_by_type" :> m) @@ ResultsBase : m \in EventMaps}
      \cup {("time_series" :> t) @@ ResultsBase : t \in {<<>>, <<TimeSeriesPoint>>}}
      \cup {("events_by_type" :> m) @@ ("time_series" :> <<TimeSeriesPoint>>)
               @@ ("variant_metrics" :> <<>>) @@ ResultsBase : m \in EventMaps}

ViewExperiments ==
    {Experiment(e) : e \in ExpIds}
      \cup {[id |-> 1, name |-> "exp1"], [id |-> 1, name |-> "exp1", variants |-> <<>>]}

\* An authenticated dashboard holding a selection and a results value.
ViewInit ==
    /\ token = <<"a">>
    /\ authToken = <<"a">>
    /\ isAuthenticated = TRUE
    /\ apiStatus = "online"
    /\ selectedExperiment \in ViewExperiments \cup {NullRec}
    /\ experiments = IF selectedExperiment = NullRec THEN <<>> ELSE <<selectedExperiment>>
    /\ results \in ViewResults
    /\ selectedExperiment = NullRec => results = NullRec
    /\ loading = FALSE
    /\ error = NullStr
    /\ inflight = {}
    /\ healthInflight = FALSE
    /\ reqCount = MaxRequests
    /\ returned = IF results = NullRec THEN {} ELSE {results}
    /\ call = NullRec
    /\ endpoint = NullRec
    /\ viewModels = NullRec

\* One render of the dashboard body.
RenderDashboard ==
    /\ isAuthenticated
    /\ viewModels = NullRec
    /\ viewModels' = Derive(selectedExperiment, results)
    /\ UNCHANGED <<token, authToken, isAuthenticated, apiStatus, experiments,
                   selectedExperiment, results, loading, error, inflight,
                   healthInflight, reqCount, returned, call, endpoint>>

ViewNext == RenderDashboard

\* The view-model derivations over all selections and payloads.
ViewSpec == ViewInit /\ [][ViewNext]_vars

\* Parameter objects callers may pass to the two query-building operations.
OptNum == {Absent} \cup {Some(n) : n \in 0..MaxLimit}

ListParams ==
    {NullRec} \cup
    [status : {Absent, Some("running")}, limit : OptNum, offset : OptNum]

ResultsParams ==
    {NullRec} \cup
    [start_date : {Absent, Some("2024-01-01")},
     end_date : {Absent, Some("2024-02-01")},
     event_types : {Absent, Some("click")},
     format : {Absent, Some("full")},
     include_time_series : {Absent, Some(FALSE), Some(TRUE)},
     time_series_granularity : {Absent, Some("day")}]

QueryCalls ==
    {[op |-> "getExperiments", id |-> 0, params |-> p] : p \in ListParams}
      \cup {[op |-> "getExperimentResults", id |-> e, params |-> p] :
                e \in ExpIds, p \in ResultsParams}

QueryInit ==
    /\ CtlInit
    /\ call \in QueryCalls
    /\ endpoint = NullRec
    /\ viewModels = NullRec

\* getExperiments(params) up to its fetchWithAuth call.
CallGetExperiments ==
    /\ call # NullRec
    /\ call.op = "getExperiments"
    /\ endpoint = NullRec
    /\ endpoint' = GetExperimentsEndpoint(call.params)
    /\ UNCHANGED <<token, authToken, isAuthenticated, apiStatus, experiments,
                   selectedExperiment, results, loading, error, inflight,
                   healthInflight, reqCount, returned, call, viewModels>>

\* getExperimentResults(id, params) up to its fetchWithAuth call.
CallGetExperimentResults ==
    /\ call # NullRec
    /\ call.op = "getExperimentResults"
    /\ endpoint = NullRec
    /\ endpoint' = GetExperimentResultsEndpoint(call.id, call.params)
    /\ UNCHANGED <<token, authToken, isAuthenticated, apiStatus, experiments,
                   selectedExperiment, results, loading, error, inflight,
                   healthInflight, reqCount, returned, call, viewModels>>

QueryNext == CallGetExperiments \/ CallGetExperimentResults

\* The query-building operations of api.ts over all parameter objects.
QuerySpec == QueryInit /\ [][QueryNext]_vars

\* Every issued request eventually resolves.
LiveSpec ==
    /\ Spec
    /\ WF_vars(\E r \in inflight, resp \in ListResponses : LoginResolve(r, resp))
    /\ WF_vars(\E r \in inflight : \E resp \in ResultsResponses(r) : ResultsResolve(r, resp))

TypeOK ==
    /\ token \in Tokens
    /\ authToken \in Tokens \cup {NullToken}
    /\ isAuthenticated \in BOOLEAN
    /\ apiStatus \in {"checking", "online", "offline"}
    /\ loading \in BOOLEAN
    /\ reqCount \in 0..MaxRequests
    /\ healthInflight \in BOOLEAN

\* ---------------------------------------------------------- properties
OkResults(e, g) == HttpResponse(200, ExperimentResults(e, g))

ResultsRequests == {r \in inflight : r.op = "getExperimentResults"}
LoginRequests == {r \in inflight : r.op = "getExperiments"}

\* C1: a new selection cancels no in-flight request, and a successful
\* results response becomes the held snapshot whatever experiment is
\* selected when it arrives, so an earlier request resolving last leaves
\* the earlier experiment's snapshot under the later selection.
C1_StaleResponseOverwrites ==
    [][ /\ \A e \in ExpIds :
             LoadExperimentResults(Experiment(e)) => inflight \subseteq inflight'
        /\ \A r \in ResultsRequests :
             ResultsResolve(r, OkResults(r.exp, r.id))
                => /\ results' = ExperimentResults(r.exp, r.id)
                   /\ inflight' = inflight \ {r} ]_vars

C1_Witness ==
    /\ inflight = {}
    /\ selectedExperiment = Experiment(2)
    /\ results # NullRec
    /\ results.experiment_id = 1

\* C2: a login attempt with an empty or blank credential sets the
\* validation message, issues no request and leaves the controller
\* unauthenticated and not loading.
C2_BlankLoginFailsLocally ==
    [][ (HandleLogin /\ Trim(token) = <<>>)
          => /\ error' = ValidationMessage
             /\ reqCount' = reqCount
             /\ inflight' = inflight
             /\ authToken' = authToken
             /\ ~isAuthenticated'
             /\ ~loading' ]_vars

C2_Witness ==
    /\ token # <<>>
    /\ Trim(token) = <<>>
    /\ error = ValidationMessage
    /\ reqCount = 0
    /\ ~isAuthenticated
    /\ ~loading

\* C3: a failed login leaves the controller unauthenticated with the
\* failure's message, and nothing the attempt wrote survives it: empty
\* experiment list, not loading, no stored credential.
C3_FailedLoginClearsState ==
    [][ \A r \in LoginRequests : \A resp \in ErrorResponses :
          LoginResolve(r, resp)
            => /\ ~isAuthenticated'
               /\ error' = FetchWithAuth(resp).message
               /\ experiments' = <<>>
               /\ ~loading'
               /\ authToken' = NullToken ]_vars

\* C4: a login with a non-blank credential stores it before the
\* listExperiments request is built, so the request carries it; a
\* successful response authenticates, sets the list to the response's list
\* (empty when it has none), and leaves error cleared and loading off.
C4_LoginStoresThenLists ==
    [][ /\ (HandleLogin /\ Trim(token) # <<>>)
            => /\ authToken' = token
               /\ \E r \in inflight' \ inflight :
                    /\ r.op = "getExperiments"
                    /\ r.headers.authorization = <<"Bearer", token>>
        /\ \A r \in LoginRequests : \A b \in ListBodies :
             LoginResolve(r, HttpResponse(200, b))
               => /\ isAuthenticated'
                  /\ experiments' =
                       (IF "experiments" \in DOMAIN b THEN b.experiments ELSE <<>>)
                  /\ error' = NullStr
                  /\ ~loading' ]_vars

C4_Witness ==
    /\ isAuthenticated
    /\ experiments = AllExperiments
    /\ authToken = token
    /\ error = NullStr
    /\ ~loading
    /\ inflight = {}

\* C5: the held results snapshot is never a snapshot of an experiment
\* other than the selected one.
C5_ResultsBelongToSelected ==
    results # NullRec
       => /\ selectedExperiment # NullRec
          /\ results.experiment_id = selectedExperiment.id

\* C6 (as claimed): a failed results request clears results, surfaces the
\* message, leaves loading, and the selected experiment is still the one
\* whose selection issued the request.
C6_FailureKeepsRequestedExperiment ==
    [][ \A r \in ResultsRequests : \A resp \in ErrorResponses :
          ResultsResolve(r, resp)
            => /\ results' = NullRec
               /\ selectedExperiment' = selectedExperiment
               /\ selectedExperiment'.id = r.exp
               /\ error' = FetchWithAuth(resp).message
               /\ ~loading' ]_vars

\* C6 (amended): a failed results request clears results, surfaces the
\* message, leaves loading and does not change the selected experiment,
\* which is the most recently selected one.
C6_FailureKeepsSelection ==
    [][ \A r \in ResultsRequests : \A resp \in ErrorResponses :
          ResultsResolve(r, resp)
            => /\ results' = NullRec
               /\ selectedExperiment' = selectedExperiment
               /\ selectedExperiment' # NullRec
               /\ error' = FetchWithAuth(resp).message
               /\ error' # NullStr
               /\ ~loading' ]_vars

C6_Witness ==
    /\ isAuthenticated
    /\ returned # {}
    /\ results = NullRec
    /\ selectedExperiment # NullRec
    /\ error # NullStr
    /\ ~loading

\* C7: results is null or exactly one payload a getExperimentResults call
\* returned, never a mix of two payloads.
C7_ResultsIsOneReturnedPayload ==
    results = NullRec \/ results \in returned

C7_Witness ==
    /\ results # NullRec
    /\ \E p \in returned : p.experiment_id # results.experiment_id

\* C8: the step that selects E makes E the selected experiment, enters
\* Loading with the error cleared and leaves results as it was; the
\* allocation view then has one (name, traffic_allocation) entry per variant
\* of E, in order.
C8_SelectionIsImmediate ==
    [][ \A e \in ExpIds :
          LoadExperimentResults(Experiment(e))
            => /\ selectedExperiment' = Experiment(e)
               /\ loading'
               /\ error' = NullStr
               /\ results' = results
               /\ LET view == VariantAllocationData(selectedExperiment')
                      V == Experiment(e).variants
                  IN /\ Len(view) = Len(V)
                     /\ \A i \in 1..Len(V) :
                          /\ view[i].variant = V[i].name
                          /\ view[i].allocation = V[i].traffic_allocation ]_vars

C8_Witness ==
    /\ loading
    /\ error = NullStr
    /\ selectedExperiment = Experiment(2)
    /\ \E r \in inflight : r.exp = 2
    /\ results # NullRec
    /\ results.experiment_id = 1
    /\ Len(VariantAllocationData(selectedExperiment)) = 2

\* C9: whenever a login or results request is outstanding, loading is true.
C9_OutstandingImpliesLoading ==
    inflight # {} => loading

\* C10: provided every request resolves, the controller keeps returning
\* to a state that is not Loading and in which a selection (when
\* authenticated) or a login (when unauthenticated and not offline) can be
\* started.
Recoverable ==
    /\ ~loading
    /\ isAuthenticated => CanSelect
    /\ (~isAuthenticated /\ apiStatus # "offline") => CanLogin

HealthSucceeded(resp) ==
    /\ resp.type = "http"
    /\ resp.status >= 200 /\ resp.status <= 299
    /\ resp.body # Unparsable

C11_HealthFailureMeansOffline ==
    [][ /\ healthInflight => apiStatus = "checking"
        /\ \A resp \in HealthResponses :
             HealthResolve(resp)
               => apiStatus' = (IF HealthSucceeded(resp) THEN "online" ELSE "offline") ]_vars

\* C12: while the indicator is checking or online a login can be started
\* (also with the probe still outstanding), Offline disables the login
\* action, and selection and results loading go on whatever the health
\* state is.
C12_HealthNeverBlocks ==
    /\ (~isAuthenticated /\ ~loading /\ apiStatus # "offline" /\ reqCount < MaxRequests)
          => ENABLED HandleLogin
    /\ (apiStatus = "offline") => ~ENABLED HandleLogin
    /\ (isAuthenticated /\ reqCount < MaxRequests)
          => \A i \in DOMAIN experiments : ENABLED LoadExperimentResults(experiments[i])
    /\ \A r \in ResultsRequests :
          ENABLED (\E resp \in ResultsResponses(r) : ResultsResolve(r, resp))

C12_Witness ==
    /\ healthInflight
    /\ apiStatus = "checking"
    /\ isAuthenticated
    /\ results # NullRec

\* C13: on a non-success status the pipeline fails with the error body's
\* detail when the body parses and has one, and with "HTTP <status>" when
\* the body is absent or unparsable.
ExpectedHttpMessage(resp) ==
    IF resp.body # Unparsable /\ "detail" \in DOMAIN resp.body
    THEN resp.body.detail
    ELSE "HTTP " \o ToString(resp.status)

HttpFailures == {resp \in ErrorResponses : resp.type = "http" /\ resp.status >= 300}

C13_HttpErrorMessage ==
    [][ \A resp \in HttpFailures :
          /\ \A r \in LoginRequests :
               LoginResolve(r, resp) => error' = ExpectedHttpMessage(resp)
          /\ \A r \in ResultsRequests :
               ResultsResolve(r, resp) => error' = ExpectedHttpMessage(resp) ]_vars

\* C18 (as claimed): with no request outstanding, an error surfaced while
\* authenticated comes with a null results snapshot.
C18_ErrorMeansNoResults ==
    (isAuthenticated /\ inflight = {} /\ error # NullStr) => results = NullRec

\* C18 (amended): a failed results response leaves the error with a null
\* snapshot; an error together with a snapshot arises only when a
\* successful response of an overlapping request arrives after the failure.
ErrorWithResults == isAuthenticated /\ error # NullStr /\ results # NullRec

C18_ErrorWithResultsOnlyByOverlap ==
    [][ /\ \A r \in ResultsRequests : \A resp \in ErrorResponses :
             ResultsResolve(r, resp) => (error' # NullStr /\ results' = NullRec)
        /\ (~ErrorWithResults /\ ErrorWithResults')
             => /\ error = error'
                /\ \E r \in ResultsRequests :
                     /\ ResultsResolve(r, OkResults(r.exp, r.id))
                     /\ results' = ExperimentResults(r.exp, r.id) ]_vars

C18_Witness ==
    /\ isAuthenticated
    /\ inflight = {}
    /\ ~loading
    /\ error # NullStr
    /\ results # NullRec

\* C19: once authenticated the controller stays authenticated, the stored
\* credential never changes and no login attempt can be started, also
\* after a results request fails with a 401 message.
C19_AuthenticatedIsPermanent ==
    [][ isAuthenticated
          => /\ isAuthenticated'
             /\ authToken' = authToken
             /\ ~CanLogin'
             /\ ~HandleLogin ]_vars

C19_Witness ==
    /\ isAuthenticated
    /\ error = "Invalid token"
    /\ results = NullRec
    /\ returned # {}
    /\ inflight = {}
    /\ authToken # NullToken

QueryValues(q, key) == {q[i].value : i \in {j \in 1..Len(q) : q[j].key = key}}

SuppliedText(params, key) ==
    LET o == Param(params, key)
    IN IF ~o.present THEN {}
       ELSE IF key \in {"limit", "offset"} THEN {ToString(o.value)}
       ELSE IF key = "include_time_series" THEN (IF o.value THEN {"true"} ELSE {})
       ELSE {o.value}

QueryKeys(op) ==
    IF op = "getExperiments" THEN {"status", "limit", "offset"}
    ELSE {"start_date", "end_date", "event_types", "format",
          "include_time_series", "time_series_granularity"}

C15_QueryHasExactlySuppliedParams ==
    endpoint # NullRec
      => /\ \A k \in QueryKeys(call.op) :
              QueryValues(endpoint.searchParams, k) = SuppliedText(call.params, k)
         /\ \A i \in 1..Len(endpoint.searchParams) :
              /\ endpoint.searchParams[i].key \in QueryKeys(call.op)
              /\ endpoint.searchParams[i].value \notin {"", "undefined"}

\* C16: the variant x event-type matrix has one row per distinct event type
\* of the payload's variant_metrics; each row has one column per
\* variant_metrics entry, holding that entry's count for the row's type, or
\* 0 when it has none, also when names repeat or equal the row key.
MetricsOf(res) == res.variant_metrics

EntryTypes(vm) == {vm.events_by_type[k].type : k \in DOMAIN vm.events_by_type}

AllTypes(metrics) == UNION {EntryTypes(metrics[j]) : j \in DOMAIN metrics}

ExpectedCount(vm, t) ==
    IF t \in EntryTypes(vm)
    THEN (CHOOSE e \in {vm.events_by_type[k] : k \in DOMAIN vm.events_by_type} :
             e.type = t).count
    ELSE 0

MatrixRendered ==
    /\ viewModels # NullRec
    /\ viewModels # TypeErrorThrown
    /\ Has(results, "variant_metrics")

C16_MatrixIsComplete ==
    MatrixRendered
      => LET metrics == MetricsOf(results)
             rows == viewModels.variantEventsData
         IN /\ Len(rows) = Cardinality(AllTypes(metrics))
            /\ \A t \in AllTypes(metrics) :
                 \E i \in DOMAIN rows :
                   /\ rows[i]["eventType"] = Label(Capitalize(t))
                   /\ Cardinality(DOMAIN rows[i] \ {"eventType"}) = Len(metrics)
                   /\ \A j \in DOMAIN metrics :
                        rows[i][metrics[j].variant_name]
                           = Count(ExpectedCount(metrics[j], t))

\* C17: no derivation fails; with results null, the selection null, or the
\* collection a derivation reads empty or missing, its view model is the
\* empty sequence.
Lacks(obj, field) == obj = NullRec \/ field \notin DOMAIN obj \/ obj[field] = <<>>

C17_DerivationsTolerateAbsence ==
    viewModels # NullRec
      => /\ viewModels # TypeErrorThrown
         /\ Lacks(selectedExperiment, "variants")
               => viewModels.variantAllocationData = <<>>
         /\ Lacks(results, "variant_metrics")
               => (viewModels.conversionData = <<>> /\ viewModels.variantEventsData = <<>>)
         /\ Lacks(results, "events_by_type") => viewModels.eventsByTypeData = <<>>
         /\ Lacks(results, "time_series") => viewModels.timeSeriesData = <<>>
====
